---- MODULE Spec2Model ----
(***************************************************************************)
(* Port driver for TIVA-C (AUTOSAR MCAL): Port_Init, Port_setPinDirection, *)
(* Port_RefreshPortDirection, Port_GetVersionInfo and Port_SetPinMode of   *)
(* Port.c, over the memory-mapped GPIO registers of ports A..F.            *)
(*                                                                         *)
(* A call is modelled as the sequence of memory events its code performs   *)
(* (stores to the two static variables, register writes, Det reports), in  *)
(* program order.  The Call actions compute that sequence from the code;   *)
(* Step performs the events one at a time, so every intermediate state of  *)
(* a call is a state of the model; Return ends the call.                   *)
(***************************************************************************)
EXTENDS Integers, Sequences, FiniteSets, TLC

(***************************************************************************)
(* Program constants                                                       *)
(***************************************************************************)
PORT_VENDOR_ID == 1000
PORT_MODULE_ID == 124
PORT_INSTANCE_ID == 0
PORT_SW_MAJOR_VERSION == 1
PORT_SW_MINOR_VERSION == 0
PORT_SW_PATCH_VERSION == 0

PORT_INITIALIZED == 1
PORT_NOT_INITIALIZED == 0

PORT_INIT_SID == 0
PORT_SET_PIN_DIRECTION_SID == 1
PORT_REFRESH_PIN_DIRECTION_SID == 2
PORT_GET_VERSION_INFO_SID == 3
PORT_SET_PIN_MODE_SID == 4

PORT_E_PARAM_PIN == 10
PORT_E_DIRECTION_UNCHANGEABLE == 11
PORT_E_PARAM_CONFIG == 12
PORT_E_PARAM_INVALID_MODE == 13
PORT_E_MODE_UNCHANGEABLE == 14
PORT_E_UNINIT == 15
PORT_E_PARAM_POINTER == 16

PORT_PIN_IN == 0
PORT_PIN_OUT == 1

RESISTOR_OFF == 0
PULL_UP == 1
PULL_DOWN == 2

PORT_CONFIGURED_CHANNELS == 2
PIN_MODE_DIO == 0

\* Std_Types.h levels
STD_LOW == 0
STD_HIGH == 1

\* The key written to the lock register, 0x4C4F434B
GPIO_LOCK_KEY == 1280262987

\* The six port blocks A..F resolved by the switch on port_num
NUM_PORTS == 6
\* Channels per port, and bits of the 4-bit-per-channel selector register
NUM_CHANNELS == 8
REG_WIDTH == 32

\* The shipped table's pins (Dio_Cfg.h): LED1 on port F channel 1, SW1 on
\* port F channel 4
DioConf_LED1_PORT_NUM == 5
DioConf_LED1_CHANNEL_NUM == 1
DioConf_SW1_PORT_NUM == 5
DioConf_SW1_CHANNEL_NUM == 4

(***************************************************************************)
(* Bounds of the model                                                     *)
(***************************************************************************)
\* Port_Num values of table entries go up to MaxPortNum (>= NUM_PORTS, so
\* that entries with an unknown port exist)
MaxPortNum == 6
\* Mode values (of entries and of Port_SetPinMode's argument): 0..MaxMode
MaxMode == 1
\* Pin identifiers passed to the services: 0..MaxPinId
MaxPinId == 2

(***************************************************************************)
(* Pointers                                                                *)
(***************************************************************************)
NULL_PTR == "NULL_PTR"
\* The address of the caller's configuration table
CONFIG_ADDR == "&ConfigTable"

(***************************************************************************)
(* Configuration data (Port_ConfigChannel, Port_ConfigType)                *)
(***************************************************************************)
Port_ConfigChannel(port, ch, mode, dir, init, dirCh, modeCh, res) ==
    [Port_Num |-> port, Ch_Num |-> ch, Mode |-> mode, Direction |-> dir,
     InitialValue |-> init, Direction_Changeable |-> dirCh,
     Mode_Changeable |-> modeCh, Resistor |-> res]

\* The shipped post-build table, Pins[0..1]
Port_Configuration ==
    [i \in 0..(PORT_CONFIGURED_CHANNELS - 1) |->
        IF i = 0
        THEN Port_ConfigChannel(DioConf_LED1_PORT_NUM, DioConf_LED1_CHANNEL_NUM,
                                PIN_MODE_DIO, PORT_PIN_OUT, STD_HIGH, TRUE, TRUE,
                                RESISTOR_OFF)
        ELSE Port_ConfigChannel(DioConf_SW1_PORT_NUM, DioConf_SW1_CHANNEL_NUM,
                                PIN_MODE_DIO, PORT_PIN_IN, STD_LOW, FALSE, TRUE,
                                PULL_UP)]

\* The two hardware-locked pins: PD7 and PF0
IsLockedPin(port_num, pin_num) ==
    \/ (port_num = 3 /\ pin_num = 7)
    \/ (port_num = 5 /\ pin_num = 0)

\* The switch on port_num finds a base address for 0..5 only
ValidPort(port_num) == port_num \in 0..(NUM_PORTS - 1)

\* Pins of the entries the model draws tables from: the two locked pins, the
\* two shipped pins, channel 1 of every unknown port up to MaxPortNum, and on
\* port A the first channel number past the last channel
ModelPins ==
    {<<3, 7>>, <<5, 0>>,
     <<DioConf_LED1_PORT_NUM, DioConf_LED1_CHANNEL_NUM>>,
     <<DioConf_SW1_PORT_NUM, DioConf_SW1_CHANNEL_NUM>>}
    \cup {<<p, 1>> : p \in NUM_PORTS..MaxPortNum}
    \cup {<<0, NUM_CHANNELS>>}

\* Direction, initial level, resistor: the level is only read for OUT and
\* the resistor only for IN
DirectionCfgs ==
    {<<PORT_PIN_OUT, STD_HIGH, RESISTOR_OFF>>, <<PORT_PIN_OUT, STD_LOW, RESISTOR_OFF>>,
     <<PORT_PIN_IN, STD_LOW, RESISTOR_OFF>>, <<PORT_PIN_IN, STD_LOW, PULL_UP>>,
     <<PORT_PIN_IN, STD_LOW, PULL_DOWN>>}

Modes == 0..MaxMode

Entries ==
    {Port_ConfigChannel(p[1], p[2], m, d[1], d[2], dc, mc, d[3]) :
        p \in ModelPins, m \in Modes, d \in DirectionCfgs,
        dc \in BOOLEAN, mc \in BOOLEAN}

\* Entries the engine reports: an unknown port, or a mode other than DIO
FaultyEntries ==
    {e \in Entries :
        /\ ~ValidPort(e.Port_Num) \/ e.Mode # PIN_MODE_DIO
        /\ e.Direction_Changeable = FALSE
        /\ e.Mode_Changeable = TRUE
        /\ e.Direction = PORT_PIN_OUT
        /\ e.InitialValue = STD_HIGH}

\* The tables a caller may own: the shipped table with one entry replaced,
\* and the tables made of faulty entries only
Tables ==
    {[Port_Configuration EXCEPT ![i] = e] :
        i \in 0..(PORT_CONFIGURED_CHANNELS - 1), e \in Entries}
    \cup [0..(PORT_CONFIGURED_CHANNELS - 1) -> FaultyEntries]

(***************************************************************************)
(* Registers.  A bit register is the set of its set bits: <<port, bit>>    *)
(* for the per-port GPIO registers, the bit number for the clock gate      *)
(* register.  LOCK holds per port the last value stored to it.             *)
(***************************************************************************)
GpioBitRegs == {"CR", "DIR", "DATA", "PUR", "PDR", "AMSEL", "AFSEL", "PCTL", "DEN"}

AllBits(width) ==
    {<<p, b>> : p \in 0..(NUM_PORTS - 1), b \in 0..(width - 1)}

RegFile(cr, dir, data, pur, pdr, amsel, afsel, pctl, den) ==
    [RCGC |-> {}, LOCK |-> [p \in 0..(NUM_PORTS - 1) |-> 0],
     CR |-> cr, DIR |-> dir, DATA |-> data, PUR |-> pur, PDR |-> pdr,
     AMSEL |-> amsel, AFSEL |-> afsel, PCTL |-> pctl, DEN |-> den]

\* Register contents the driver may find when it is first called: the
\* power-on state, and two complementary patterns left by earlier software
InitialRegs ==
    {RegFile({}, {}, {}, {}, {}, {}, {}, {}, {}),
     RegFile({}, AllBits(NUM_CHANNELS), {}, AllBits(NUM_CHANNELS), {},
             AllBits(NUM_CHANNELS), {}, AllBits(REG_WIDTH), {}),
     RegFile(AllBits(NUM_CHANNELS), {}, AllBits(NUM_CHANNELS), {},
             AllBits(NUM_CHANNELS), {}, AllBits(NUM_CHANNELS), {},
             AllBits(NUM_CHANNELS))}

(***************************************************************************)
(* Memory events.  Every event carries the service that performs it (sid)  *)
(* and the table index it belongs to (idx; the Pin argument for the        *)
(* single-pin services, -1 outside any entry).                             *)
(*   "ptr"    Port_ConfigPtr = <reg>       (reg holds the pointer)          *)
(*   "status" Port_Status = <val>                                          *)
(*   "iter"   loop header: loop_idx = <idx>, the entry's fields are read    *)
(*   "rcgc"   SYSCTL_RCGCGPIO_REG |= (1U << bit)                            *)
(*   "lock"   LOCK register of <port> = <val>                               *)
(*   "set"    SET_BIT(<reg> of <port>, <bit>)                               *)
(*   "clear"  CLEAR_BIT(<reg> of <port>, <bit>)                             *)
(*   "clrnib" PCTL of <port> &= ~(0x0F << (<bit> * 4))                      *)
(*   "det"    Det_ReportError(PORT_MODULE_ID, PORT_INSTANCE_ID, sid, <val>) *)
(*   "ver"    the five fields of *versioninfo are stored                    *)
(***************************************************************************)
Ev(t, sid, idx, reg, port, bit, val) ==
    [t |-> t, sid |-> sid, idx |-> idx, reg |-> reg, port |-> port,
     bit |-> bit, val |-> val]

Det_ReportError(ApiId, idx, ErrorId) == Ev("det", ApiId, idx, "", -1, -1, ErrorId)
StoreStatus(sid, v) == Ev("status", sid, -1, "", -1, -1, v)
StorePtr(sid, ptr) == Ev("ptr", sid, -1, ptr, -1, -1, 0)
LoopIter(sid, idx) == Ev("iter", sid, idx, "", -1, -1, 0)
EnableClock(sid, idx, port_num) == Ev("rcgc", sid, idx, "RCGC", -1, port_num, 1)
StoreLock(sid, idx, port_num) == Ev("lock", sid, idx, "LOCK", port_num, -1, GPIO_LOCK_KEY)
SetBitEv(sid, idx, reg, port_num, pin_num) == Ev("set", sid, idx, reg, port_num, pin_num, 1)
ClearBitEv(sid, idx, reg, port_num, pin_num) == Ev("clear", sid, idx, reg, port_num, pin_num, 0)
ClearNibble(sid, idx, port_num, pin_num) == Ev("clrnib", sid, idx, "PCTL", port_num, pin_num, 0)
StoreVersion(sid) == Ev("ver", sid, -1, "", -1, -1, 0)

IsRegWrite(ev) == ev.t \in {"rcgc", "lock", "set", "clear", "clrnib"}
IsDet(ev) == ev.t = "det"

\* common_macros.h
SET_BIT(REG, BIT) == REG \cup {BIT}
CLEAR_BIT(REG, BIT) == REG \ {BIT}

\* The bits of the 4-bit selector field of channel pin_num: 0x0F << (pin_num * 4)
NibbleBits(port_num, pin_num) ==
    {<<port_num, b>> : b \in (pin_num * 4)..(pin_num * 4 + 3)}

\* Mutant of Apply: SET_BIT inverts the bit
Apply_SetInverts(r, ev) ==
    CASE ev.t = "rcgc"   -> [r EXCEPT !.RCGC = SET_BIT(@, ev.bit)]
      [] ev.t = "lock"   -> [r EXCEPT !.LOCK[ev.port] = ev.val]
      [] ev.t = "set"    -> [r EXCEPT ![ev.reg] =
                                IF <<ev.port, ev.bit>> \in @
                                THEN CLEAR_BIT(@, <<ev.port, ev.bit>>)
                                ELSE SET_BIT(@, <<ev.port, ev.bit>>)]
      [] ev.t = "clear"  -> [r EXCEPT ![ev.reg] = CLEAR_BIT(@, <<ev.port, ev.bit>>)]
      [] ev.t = "clrnib" -> [r EXCEPT !.PCTL = @ \ NibbleBits(ev.port, ev.bit)]
      [] OTHER           -> r

\* The register file after one register write
Apply(r, ev) ==
    CASE ev.t = "rcgc"   -> [r EXCEPT !.RCGC = SET_BIT(@, ev.bit)]
      [] ev.t = "lock"   -> [r EXCEPT !.LOCK[ev.port] = ev.val]
      [] ev.t = "set"    -> [r EXCEPT ![ev.reg] = SET_BIT(@, <<ev.port, ev.bit>>)]
      [] ev.t = "clear"  -> [r EXCEPT ![ev.reg] = CLEAR_BIT(@, <<ev.port, ev.bit>>)]
      [] ev.t = "clrnib" -> [r EXCEPT !.PCTL = @ \ NibbleBits(ev.port, ev.bit)]
      [] OTHER           -> r

\* The register file after one register write on a given build.  In
\* PCTL &= ~(0x0F << (pin_num * 4)) a shift by the width of the operand or
\* more is undefined: the build either yields 0 for the shift (the register
\* keeps its value), or takes the shift count modulo the width (wraps)
ApplyOn(wraps, r, ev) ==
    IF ev.t = "clrnib" /\ ev.bit * 4 >= REG_WIDTH
    THEN IF wraps
         THEN [r EXCEPT !.PCTL =
                  @ \ NibbleBits(ev.port, ((ev.bit * 4) % REG_WIDTH) \div 4)]
         ELSE r
    ELSE Apply(r, ev)

\* The register files one register write can leave, over all builds
ApplyOutcomes(r, ev) == {ApplyOn(wraps, r, ev) : wraps \in BOOLEAN}

\* The register file after a sequence of writes on a given build
RECURSIVE ApplySeq(_, _, _)
ApplySeq(wraps, r, evs) ==
    IF evs = <<>> THEN r
    ELSE ApplySeq(wraps, ApplyOn(wraps, r, Head(evs)), Tail(evs))

\* The register files a sequence of writes can leave, starting from one of rs
RECURSIVE ApplyAll(_, _)
ApplyAll(rs, evs) ==
    IF evs = <<>> THEN rs
    ELSE ApplyAll(UNION {ApplyOutcomes(r, Head(evs)) : r \in rs}, Tail(evs))

(***************************************************************************)
(* State                                                                   *)
(***************************************************************************)
VARIABLES
    ConfigTable,     \* the caller's Port_ConfigType object (never written)
    Port_Status,     \* static uint8 Port_Status
    Port_ConfigPtr,  \* static const Port_ConfigType* Port_ConfigPtr
    regs,            \* the memory-mapped registers
    versioninfo,     \* the caller's Std_VersionInfoType slot of the current call
    pc,              \* "idle", "run" (inside a service), "ret" (it has returned)
    call,            \* the service running and its arguments
    todo,            \* the events the running service has still to perform
    trace,           \* the events the running service has performed
    loop_idx,        \* loop_idx of Port_Init / Port_RefreshPortDirection
    atCall,          \* history: regs when the current call was entered
    atEntry,         \* history: regs when the current loop iteration began
    initCompleted,   \* history: some Port_Init with a table has returned
    ctx,             \* the execution contexts of concurrent callers
    shiftWraps       \* the build: an oversized shift count wraps (never written)

vars == <<ConfigTable, Port_Status, Port_ConfigPtr, regs, versioninfo, pc, call,
          todo, trace, loop_idx, atCall, atEntry, initCompleted, ctx,
          shiftWraps>>

NoCall == [sid |-> -1, ptr |-> NULL_PTR, Pin |-> -1, arg |-> -1, slot |-> FALSE]
NoVersion == [vendorID |-> -1, moduleID |-> -1, sw_major_version |-> -1,
              sw_minor_version |-> -1, sw_patch_version |-> -1]

\* Port_ConfigPtr->Pins, read only where the pointer is not NULL_PTR
Pins(ptr) == ConfigTable

(***************************************************************************)
(* Port_Init                                                               *)
(***************************************************************************)
\* (portsEnabledMask & (1 << port_num)) == 0, the mask a uint8 kept as the
\* set of its set bits
ClockNotYetEnabled(portsEnabledMask, port_num) == port_num \notin portsEnabledMask

\* Mutant of MaskAfter: the mask is never updated
MaskAfter_Forgets(portsEnabledMask, port_num) == portsEnabledMask

\* portsEnabledMask |= (uint8)(1U << port_num): bits above 7 are cut off
MaskAfter(portsEnabledMask, port_num) ==
    IF ClockNotYetEnabled(portsEnabledMask, port_num) /\ port_num < 8
    THEN portsEnabledMask \cup {port_num}
    ELSE portsEnabledMask

\* Unlock and commit for PD7 or PF0
Init_Unlock(idx, port_num, pin_num) ==
    IF IsLockedPin(port_num, pin_num)
    THEN <<StoreLock(PORT_INIT_SID, idx, port_num),
           SetBitEv(PORT_INIT_SID, idx, "CR", port_num, pin_num)>>
    ELSE <<>>

\* Mutant of Init_Direction: the PULL_UP branch does not clear the pull-down bit
Init_Direction_KeepsPullDown(idx, port_num, pin_num, direction, initVal, resistor) ==
    IF direction = PORT_PIN_OUT
    THEN <<SetBitEv(PORT_INIT_SID, idx, "DIR", port_num, pin_num),
           IF initVal = STD_HIGH
           THEN SetBitEv(PORT_INIT_SID, idx, "DATA", port_num, pin_num)
           ELSE ClearBitEv(PORT_INIT_SID, idx, "DATA", port_num, pin_num)>>
    ELSE <<ClearBitEv(PORT_INIT_SID, idx, "DIR", port_num, pin_num)>>
         \o (IF resistor = PULL_UP
             THEN <<SetBitEv(PORT_INIT_SID, idx, "PUR", port_num, pin_num)>>
             ELSE IF resistor = PULL_DOWN
             THEN <<SetBitEv(PORT_INIT_SID, idx, "PDR", port_num, pin_num),
                    ClearBitEv(PORT_INIT_SID, idx, "PUR", port_num, pin_num)>>
             ELSE <<>>)

\* Configure direction, then the initial level (OUT) or the resistor (IN)
Init_Direction(idx, port_num, pin_num, direction, initVal, resistor) ==
    IF direction = PORT_PIN_OUT
    THEN <<SetBitEv(PORT_INIT_SID, idx, "DIR", port_num, pin_num),
           IF initVal = STD_HIGH
           THEN SetBitEv(PORT_INIT_SID, idx, "DATA", port_num, pin_num)
           ELSE ClearBitEv(PORT_INIT_SID, idx, "DATA", port_num, pin_num)>>
    ELSE <<ClearBitEv(PORT_INIT_SID, idx, "DIR", port_num, pin_num)>>
         \o (IF resistor = PULL_UP
             THEN <<SetBitEv(PORT_INIT_SID, idx, "PUR", port_num, pin_num),
                    ClearBitEv(PORT_INIT_SID, idx, "PDR", port_num, pin_num)>>
             ELSE IF resistor = PULL_DOWN
             THEN <<SetBitEv(PORT_INIT_SID, idx, "PDR", port_num, pin_num),
                    ClearBitEv(PORT_INIT_SID, idx, "PUR", port_num, pin_num)>>
             ELSE <<>>)

\* switch (mode)
Init_Mode(idx, port_num, pin_num, mode) ==
    IF mode = PIN_MODE_DIO
    THEN <<ClearBitEv(PORT_INIT_SID, idx, "AMSEL", port_num, pin_num),
           ClearBitEv(PORT_INIT_SID, idx, "AFSEL", port_num, pin_num),
           ClearNibble(PORT_INIT_SID, idx, port_num, pin_num),
           SetBitEv(PORT_INIT_SID, idx, "DEN", port_num, pin_num)>>
    ELSE <<Det_ReportError(PORT_INIT_SID, idx, PORT_E_PARAM_INVALID_MODE)>>

\* One iteration of the loop over the table
Init_Entry(e, idx, portsEnabledMask) ==
    <<LoopIter(PORT_INIT_SID, idx)>>
    \o (IF ClockNotYetEnabled(portsEnabledMask, e.Port_Num)
        THEN <<EnableClock(PORT_INIT_SID, idx, e.Port_Num)>>
        ELSE <<>>)
    \o (IF ~ValidPort(e.Port_Num)
        THEN <<Det_ReportError(PORT_INIT_SID, idx, PORT_E_PARAM_PIN)>>
        ELSE Init_Unlock(idx, e.Port_Num, e.Ch_Num)
             \o Init_Direction(idx, e.Port_Num, e.Ch_Num, e.Direction,
                               e.InitialValue, e.Resistor)
             \o Init_Mode(idx, e.Port_Num, e.Ch_Num, e.Mode))

\* Mutant of Init_Loop: an unknown port ends the loop (break for continue)
RECURSIVE Init_Loop_BreakOnBadPort(_, _, _)
Init_Loop_BreakOnBadPort(cfg, idx, portsEnabledMask) ==
    IF idx >= PORT_CONFIGURED_CHANNELS
    THEN <<>>
    ELSE Init_Entry(cfg[idx], idx, portsEnabledMask)
         \o (IF ~ValidPort(cfg[idx].Port_Num)
             THEN <<>>
             ELSE Init_Loop_BreakOnBadPort(cfg, idx + 1,
                      MaskAfter(portsEnabledMask, cfg[idx].Port_Num)))

RECURSIVE Init_Loop(_, _, _)
Init_Loop(cfg, idx, portsEnabledMask) ==
    IF idx >= PORT_CONFIGURED_CHANNELS
    THEN <<>>
    ELSE Init_Entry(cfg[idx], idx, portsEnabledMask)
         \o Init_Loop(cfg, idx + 1, MaskAfter(portsEnabledMask, cfg[idx].Port_Num))

\* Mutant of Port_Init: a NULL_PTR argument resets Port_Status before the report
Port_Init_NullResets(ConfigPtr) ==
    IF ConfigPtr = NULL_PTR
    THEN <<StoreStatus(PORT_INIT_SID, PORT_NOT_INITIALIZED),
           Det_ReportError(PORT_INIT_SID, -1, PORT_E_PARAM_CONFIG)>>
    ELSE <<StorePtr(PORT_INIT_SID, ConfigPtr),
           StoreStatus(PORT_INIT_SID, PORT_NOT_INITIALIZED)>>
         \o Init_Loop(Pins(ConfigPtr), 0, {})
         \o <<StoreStatus(PORT_INIT_SID, PORT_INITIALIZED)>>

\* Mutant of Port_Init: the table pointer is not stored
Port_Init_NoPointerStore(ConfigPtr) ==
    IF ConfigPtr = NULL_PTR
    THEN <<Det_ReportError(PORT_INIT_SID, -1, PORT_E_PARAM_CONFIG)>>
    ELSE <<StoreStatus(PORT_INIT_SID, PORT_NOT_INITIALIZED)>>
         \o Init_Loop(Pins(ConfigPtr), 0, {})
         \o <<StoreStatus(PORT_INIT_SID, PORT_INITIALIZED)>>

Port_Init(ConfigPtr) ==
    IF ConfigPtr = NULL_PTR
    THEN <<Det_ReportError(PORT_INIT_SID, -1, PORT_E_PARAM_CONFIG)>>
    ELSE <<StorePtr(PORT_INIT_SID, ConfigPtr),
           StoreStatus(PORT_INIT_SID, PORT_NOT_INITIALIZED)>>
         \o Init_Loop(Pins(ConfigPtr), 0, {})
         \o <<StoreStatus(PORT_INIT_SID, PORT_INITIALIZED)>>

(***************************************************************************)
(* Port_setPinDirection                                                    *)
(***************************************************************************)
\* Mutant of SetPinDirection_Unlock: the commit bit is set before the key is stored
SetPinDirection_Unlock_CommitFirst(Pin, port_num, pin_num) ==
    IF IsLockedPin(port_num, pin_num)
    THEN <<SetBitEv(PORT_SET_PIN_DIRECTION_SID, Pin, "CR", port_num, pin_num),
           StoreLock(PORT_SET_PIN_DIRECTION_SID, Pin, port_num)>>
    ELSE <<>>

SetPinDirection_Unlock(Pin, port_num, pin_num) ==
    IF IsLockedPin(port_num, pin_num)
    THEN <<StoreLock(PORT_SET_PIN_DIRECTION_SID, Pin, port_num),
           SetBitEv(PORT_SET_PIN_DIRECTION_SID, Pin, "CR", port_num, pin_num)>>
    ELSE <<>>

\* Mutant of SetPinDirection_Write: switching to output also drives the pin low
SetPinDirection_Write_DrivesLow(Pin, port_num, pin_num, Direction) ==
    IF ~ValidPort(port_num)
    THEN <<Det_ReportError(PORT_SET_PIN_DIRECTION_SID, Pin, PORT_E_PARAM_PIN)>>
    ELSE SetPinDirection_Unlock(Pin, port_num, pin_num)
         \o (IF Direction = PORT_PIN_OUT
             THEN <<SetBitEv(PORT_SET_PIN_DIRECTION_SID, Pin, "DIR", port_num, pin_num),
                    ClearBitEv(PORT_SET_PIN_DIRECTION_SID, Pin, "DATA", port_num, pin_num)>>
             ELSE <<ClearBitEv(PORT_SET_PIN_DIRECTION_SID, Pin, "DIR", port_num, pin_num)>>)

SetPinDirection_Write(Pin, port_num, pin_num, Direction) ==
    IF ~ValidPort(port_num)
    THEN <<Det_ReportError(PORT_SET_PIN_DIRECTION_SID, Pin, PORT_E_PARAM_PIN)>>
    ELSE SetPinDirection_Unlock(Pin, port_num, pin_num)
         \o <<IF Direction = PORT_PIN_OUT
              THEN SetBitEv(PORT_SET_PIN_DIRECTION_SID, Pin, "DIR", port_num, pin_num)
              ELSE ClearBitEv(PORT_SET_PIN_DIRECTION_SID, Pin, "DIR", port_num, pin_num)>>

\* Mutant of Port_setPinDirection: the range of Pin is checked before Port_Status
Port_setPinDirection_RangeFirst(Pin, Direction) ==
    IF Pin >= PORT_CONFIGURED_CHANNELS
    THEN <<Det_ReportError(PORT_SET_PIN_DIRECTION_SID, -1, PORT_E_PARAM_PIN)>>
    ELSE IF Port_Status = PORT_NOT_INITIALIZED
    THEN <<Det_ReportError(PORT_SET_PIN_DIRECTION_SID, -1, PORT_E_UNINIT)>>
    ELSE IF Pins(Port_ConfigPtr)[Pin].Direction_Changeable = FALSE
    THEN <<Det_ReportError(PORT_SET_PIN_DIRECTION_SID, Pin,
                           PORT_E_DIRECTION_UNCHANGEABLE)>>
    ELSE SetPinDirection_Write(Pin, Pins(Port_ConfigPtr)[Pin].Port_Num,
                               Pins(Port_ConfigPtr)[Pin].Ch_Num, Direction)

\* Mutant of Port_setPinDirection: Direction_Changeable is not checked
Port_setPinDirection_NoChangeableCheck(Pin, Direction) ==
    IF Port_Status = PORT_NOT_INITIALIZED
    THEN <<Det_ReportError(PORT_SET_PIN_DIRECTION_SID, -1, PORT_E_UNINIT)>>
    ELSE IF Pin >= PORT_CONFIGURED_CHANNELS
    THEN <<Det_ReportError(PORT_SET_PIN_DIRECTION_SID, -1, PORT_E_PARAM_PIN)>>
    ELSE SetPinDirection_Write(Pin, Pins(Port_ConfigPtr)[Pin].Port_Num,
                               Pins(Port_ConfigPtr)[Pin].Ch_Num, Direction)

Port_setPinDirection(Pin, Direction) ==
    IF Port_Status = PORT_NOT_INITIALIZED
    THEN <<Det_ReportError(PORT_SET_PIN_DIRECTION_SID, -1, PORT_E_UNINIT)>>
    ELSE IF Pin >= PORT_CONFIGURED_CHANNELS
    THEN <<Det_ReportError(PORT_SET_PIN_DIRECTION_SID, -1, PORT_E_PARAM_PIN)>>
    ELSE IF Pins(Port_ConfigPtr)[Pin].Direction_Changeable = FALSE
    THEN <<Det_ReportError(PORT_SET_PIN_DIRECTION_SID, Pin,
                           PORT_E_DIRECTION_UNCHANGEABLE)>>
    ELSE SetPinDirection_Write(Pin, Pins(Port_ConfigPtr)[Pin].Port_Num,
                               Pins(Port_ConfigPtr)[Pin].Ch_Num, Direction)

\* The indices at which Port_setPinDirection reads Port_ConfigPtr->Pins[]
SetPinDirection_Reads(Pin) ==
    IF Port_Status = PORT_NOT_INITIALIZED
    THEN {}
    ELSE IF Pin >= PORT_CONFIGURED_CHANNELS
    THEN {}
    ELSE {Pin}

(***************************************************************************)
(* Port_RefreshPortDirection                                               *)
(***************************************************************************)
Refresh_Unlock(idx, port_num, pin_num) ==
    IF IsLockedPin(port_num, pin_num)
    THEN <<StoreLock(PORT_REFRESH_PIN_DIRECTION_SID, idx, port_num),
           SetBitEv(PORT_REFRESH_PIN_DIRECTION_SID, idx, "CR", port_num, pin_num)>>
    ELSE <<>>

\* Mutant of Refresh_Entry: the direction is re-applied whatever
\* Direction_Changeable says
Refresh_Entry_AllPins(e, idx) ==
    <<LoopIter(PORT_REFRESH_PIN_DIRECTION_SID, idx)>>
    \o (IF ~ValidPort(e.Port_Num)
        THEN <<Det_ReportError(PORT_REFRESH_PIN_DIRECTION_SID, idx, PORT_E_PARAM_PIN)>>
        ELSE Refresh_Unlock(idx, e.Port_Num, e.Ch_Num)
             \o <<IF e.Direction = PORT_PIN_OUT
                  THEN SetBitEv(PORT_REFRESH_PIN_DIRECTION_SID, idx, "DIR",
                                e.Port_Num, e.Ch_Num)
                  ELSE ClearBitEv(PORT_REFRESH_PIN_DIRECTION_SID, idx, "DIR",
                                  e.Port_Num, e.Ch_Num)>>)

\* One iteration of the loop over the table
Refresh_Entry(e, idx) ==
    <<LoopIter(PORT_REFRESH_PIN_DIRECTION_SID, idx)>>
    \o (IF e.Direction_Changeable = FALSE
        THEN IF ~ValidPort(e.Port_Num)
             THEN <<Det_ReportError(PORT_REFRESH_PIN_DIRECTION_SID, idx,
                                    PORT_E_PARAM_PIN)>>
             ELSE Refresh_Unlock(idx, e.Port_Num, e.Ch_Num)
                  \o <<IF e.Direction = PORT_PIN_OUT
                       THEN SetBitEv(PORT_REFRESH_PIN_DIRECTION_SID, idx, "DIR",
                                     e.Port_Num, e.Ch_Num)
                       ELSE ClearBitEv(PORT_REFRESH_PIN_DIRECTION_SID, idx, "DIR",
                                       e.Port_Num, e.Ch_Num)>>
        ELSE <<>>)

\* Mutant of Refresh_Loop: the pass ends at the first entry with an unknown port
RECURSIVE Refresh_Loop_BreakOnBadPort(_, _)
Refresh_Loop_BreakOnBadPort(cfg, idx) ==
    IF idx >= PORT_CONFIGURED_CHANNELS
    THEN <<>>
    ELSE IF cfg[idx].Direction_Changeable = FALSE /\ ~ValidPort(cfg[idx].Port_Num)
    THEN Refresh_Entry(cfg[idx], idx)
    ELSE Refresh_Entry(cfg[idx], idx) \o Refresh_Loop_BreakOnBadPort(cfg, idx + 1)

RECURSIVE Refresh_Loop(_, _)
Refresh_Loop(cfg, idx) ==
    IF idx >= PORT_CONFIGURED_CHANNELS
    THEN <<>>
    ELSE Refresh_Entry(cfg[idx], idx) \o Refresh_Loop(cfg, idx + 1)

\* Mutant of Port_RefreshPortDirection: Port_Status is not checked
Port_RefreshPortDirection_NoUninitCheck == Refresh_Loop(Pins(Port_ConfigPtr), 0)

Port_RefreshPortDirection ==
    IF Port_Status = PORT_NOT_INITIALIZED
    THEN <<Det_ReportError(PORT_REFRESH_PIN_DIRECTION_SID, -1, PORT_E_UNINIT)>>
    ELSE Refresh_Loop(Pins(Port_ConfigPtr), 0)

(***************************************************************************)
(* Port_GetVersionInfo                                                     *)
(***************************************************************************)
\* Mutant of Port_GetVersionInfo: the version is only given once the driver
\* is initialized
Port_GetVersionInfo_RequiresInit(slotPresent) ==
    IF Port_Status = PORT_NOT_INITIALIZED
    THEN <<Det_ReportError(PORT_GET_VERSION_INFO_SID, -1, PORT_E_UNINIT)>>
    ELSE IF ~slotPresent
    THEN <<Det_ReportError(PORT_GET_VERSION_INFO_SID, -1, PORT_E_PARAM_POINTER)>>
    ELSE <<StoreVersion(PORT_GET_VERSION_INFO_SID)>>

\* slotPresent: versioninfo != NULL_PTR
Port_GetVersionInfo(slotPresent) ==
    IF ~slotPresent
    THEN <<Det_ReportError(PORT_GET_VERSION_INFO_SID, -1, PORT_E_PARAM_POINTER)>>
    ELSE <<StoreVersion(PORT_GET_VERSION_INFO_SID)>>

\* What the five stores put into *versioninfo
VersionInfo ==
    [vendorID |-> PORT_VENDOR_ID, moduleID |-> PORT_MODULE_ID,
     sw_major_version |-> PORT_SW_MAJOR_VERSION,
     sw_minor_version |-> PORT_SW_MINOR_VERSION,
     sw_patch_version |-> PORT_SW_PATCH_VERSION]

(***************************************************************************)
(* Port_SetPinMode                                                         *)
(***************************************************************************)
SetPinMode_Unlock(Pin, port_num, pin_num) ==
    IF IsLockedPin(port_num, pin_num)
    THEN <<StoreLock(PORT_SET_PIN_MODE_SID, Pin, port_num),
           SetBitEv(PORT_SET_PIN_MODE_SID, Pin, "CR", port_num, pin_num)>>
    ELSE <<>>

\* Mutant of SetPinMode_Mode: the function selector field is left as it was
SetPinMode_Mode_KeepsSelector(Pin, port_num, pin_num, Mode) ==
    IF Mode = PIN_MODE_DIO
    THEN <<ClearBitEv(PORT_SET_PIN_MODE_SID, Pin, "AMSEL", port_num, pin_num),
           ClearBitEv(PORT_SET_PIN_MODE_SID, Pin, "AFSEL", port_num, pin_num),
           SetBitEv(PORT_SET_PIN_MODE_SID, Pin, "DEN", port_num, pin_num)>>
    ELSE <<Det_ReportError(PORT_SET_PIN_MODE_SID, Pin, PORT_E_PARAM_INVALID_MODE)>>

\* switch (Mode)
SetPinMode_Mode(Pin, port_num, pin_num, Mode) ==
    IF Mode = PIN_MODE_DIO
    THEN <<ClearBitEv(PORT_SET_PIN_MODE_SID, Pin, "AMSEL", port_num, pin_num),
           ClearBitEv(PORT_SET_PIN_MODE_SID, Pin, "AFSEL", port_num, pin_num),
           ClearNibble(PORT_SET_PIN_MODE_SID, Pin, port_num, pin_num),
           SetBitEv(PORT_SET_PIN_MODE_SID, Pin, "DEN", port_num, pin_num)>>
    ELSE <<Det_ReportError(PORT_SET_PIN_MODE_SID, Pin, PORT_E_PARAM_INVALID_MODE)>>

SetPinMode_Write(Pin, port_num, pin_num, Mode) ==
    IF ~ValidPort(port_num)
    THEN <<Det_ReportError(PORT_SET_PIN_MODE_SID, Pin, PORT_E_PARAM_PIN)>>
    ELSE SetPinMode_Unlock(Pin, port_num, pin_num)
         \o SetPinMode_Mode(Pin, port_num, pin_num, Mode)

\* Mutant of Port_SetPinMode: Mode_Changeable is not checked
Port_SetPinMode_NoChangeableCheck(Pin, Mode) ==
    IF Port_Status = PORT_NOT_INITIALIZED
    THEN <<Det_ReportError(PORT_SET_PIN_MODE_SID, -1, PORT_E_UNINIT)>>
    ELSE IF Pin >= PORT_CONFIGURED_CHANNELS
    THEN <<Det_ReportError(PORT_SET_PIN_MODE_SID, -1, PORT_E_PARAM_PIN)>>
    ELSE SetPinMode_Write(Pin, Pins(Port_ConfigPtr)[Pin].Port_Num,
                          Pins(Port_ConfigPtr)[Pin].Ch_Num, Mode)

Port_SetPinMode(Pin, Mode) ==
    IF Port_Status = PORT_NOT_INITIALIZED
    THEN <<Det_ReportError(PORT_SET_PIN_MODE_SID, -1, PORT_E_UNINIT)>>
    ELSE IF Pin >= PORT_CONFIGURED_CHANNELS
    THEN <<Det_ReportError(PORT_SET_PIN_MODE_SID, -1, PORT_E_PARAM_PIN)>>
    ELSE IF Pins(Port_ConfigPtr)[Pin].Mode_Changeable = FALSE
    THEN <<Det_ReportError(PORT_SET_PIN_MODE_SID, Pin, PORT_E_MODE_UNCHANGEABLE)>>
    ELSE SetPinMode_Write(Pin, Pins(Port_ConfigPtr)[Pin].Port_Num,
                          Pins(Port_ConfigPtr)[Pin].Ch_Num, Mode)

(***************************************************************************)
(* Actions                                                                 *)
(***************************************************************************)
NoSnap == RegFile({}, {}, {}, {}, {}, {}, {}, {}, {})

\* The builds to tell apart for a table: they differ only where a shift count
\* reaches the operand width, which takes a channel number of 8 or more
Builds(cfg) ==
    IF \E i \in 0..(PORT_CONFIGURED_CHANNELS - 1) : cfg[i].Ch_Num * 4 >= REG_WIDTH
    THEN BOOLEAN
    ELSE {FALSE}

\* The execution contexts that may call the driver at the same time: a task
\* and an interrupt handler
Contexts == {"task", "isr"}

\* A context outside the driver.  Inside Port_setPinDirection it holds the
\* arguments, the statements still to perform, and the register value it has
\* loaded for the read-modify-write in progress
IdleCtx ==
    [pc |-> "idle", Pin |-> -1, Direction |-> -1, todo |-> <<>>,
     loaded |-> FALSE, latch |-> {}, failed |-> FALSE]

Init ==
    /\ ConfigTable \in Tables
    /\ Port_Status = PORT_NOT_INITIALIZED
    /\ Port_ConfigPtr = NULL_PTR
    /\ regs \in InitialRegs
    /\ versioninfo = NoVersion
    /\ pc = "idle"
    /\ call = NoCall
    /\ todo = <<>>
    /\ trace = <<>>
    /\ loop_idx = 0
    /\ atCall = NoSnap
    /\ atEntry = NoSnap
    /\ initCompleted = FALSE
    /\ ctx = [c \in Contexts |-> IdleCtx]
    /\ shiftWraps \in Builds(ConfigTable)

\* The events of the service that call c names, with c's arguments
Service(c) ==
    CASE c.sid = PORT_INIT_SID -> Port_Init(c.ptr)
      [] c.sid = PORT_SET_PIN_DIRECTION_SID -> Port_setPinDirection(c.Pin, c.arg)
      [] c.sid = PORT_REFRESH_PIN_DIRECTION_SID -> Port_RefreshPortDirection
      [] c.sid = PORT_GET_VERSION_INFO_SID -> Port_GetVersionInfo(c.slot)
      [] c.sid = PORT_SET_PIN_MODE_SID -> Port_SetPinMode(c.Pin, c.arg)

\* Entering a service: its arguments are recorded and its events computed
\* from the state it is entered in
Enter(c) ==
    /\ pc = "idle"
    /\ pc' = "run"
    /\ call' = c
    /\ todo' = Service(c)
    /\ trace' = <<>>
    /\ atCall' = regs
    /\ atEntry' = regs
    /\ UNCHANGED <<ConfigTable, Port_Status, Port_ConfigPtr, regs, versioninfo,
                   loop_idx, initCompleted, ctx, shiftWraps>>

CallInit ==
    \E ConfigPtr \in {NULL_PTR, CONFIG_ADDR} :
        Enter([NoCall EXCEPT !.sid = PORT_INIT_SID, !.ptr = ConfigPtr])

CallSetPinDirection ==
    \E Pin \in 0..MaxPinId, Direction \in {PORT_PIN_IN, PORT_PIN_OUT} :
        Enter([NoCall EXCEPT !.sid = PORT_SET_PIN_DIRECTION_SID, !.Pin = Pin,
                             !.arg = Direction])

CallRefreshPortDirection ==
    Enter([NoCall EXCEPT !.sid = PORT_REFRESH_PIN_DIRECTION_SID])

CallGetVersionInfo ==
    \E slotPresent \in BOOLEAN :
        Enter([NoCall EXCEPT !.sid = PORT_GET_VERSION_INFO_SID, !.slot = slotPresent])

CallSetPinMode ==
    \E Pin \in 0..MaxPinId, Mode \in Modes :
        Enter([NoCall EXCEPT !.sid = PORT_SET_PIN_MODE_SID, !.Pin = Pin, !.arg = Mode])

\* The running service performs its next event
Step ==
    /\ pc = "run"
    /\ todo # <<>>
    /\ LET ev == Head(todo) IN
        /\ regs' = ApplyOn(shiftWraps, regs, ev)
        /\ Port_Status' = IF ev.t = "status" THEN ev.val ELSE Port_Status
        /\ Port_ConfigPtr' = IF ev.t = "ptr" THEN ev.reg ELSE Port_ConfigPtr
        /\ versioninfo' = IF ev.t = "ver" THEN VersionInfo ELSE versioninfo
        /\ loop_idx' = IF ev.t = "iter" THEN ev.idx ELSE loop_idx
        /\ atEntry' = IF ev.t = "iter" THEN regs ELSE atEntry
        /\ trace' = Append(trace, ev)
        /\ todo' = Tail(todo)
        /\ pc' = IF Tail(todo) = <<>> THEN "ret" ELSE "run"
    /\ UNCHANGED <<ConfigTable, call, atCall, initCompleted, ctx, shiftWraps>>

\* The service returns to its caller
Return ==
    /\ pc = "ret"
    /\ pc' = "idle"
    /\ initCompleted' = (initCompleted
                         \/ (call.sid = PORT_INIT_SID /\ call.ptr # NULL_PTR))
    /\ call' = NoCall
    /\ trace' = <<>>
    /\ versioninfo' = NoVersion
    /\ loop_idx' = 0
    /\ atCall' = NoSnap
    /\ atEntry' = NoSnap
    /\ UNCHANGED <<ConfigTable, Port_Status, Port_ConfigPtr, regs, todo, ctx,
                   shiftWraps>>

\* Between calls, other software or a fault flips the direction bit of a
\* configured pin
ExternalWrite ==
    /\ pc = "idle"
    /\ \E i \in 0..(PORT_CONFIGURED_CHANNELS - 1) :
        LET BIT == <<ConfigTable[i].Port_Num, ConfigTable[i].Ch_Num>> IN
        /\ ValidPort(ConfigTable[i].Port_Num)
        /\ regs' = [regs EXCEPT !.DIR = IF BIT \in @ THEN CLEAR_BIT(@, BIT)
                                                     ELSE SET_BIT(@, BIT)]
    /\ UNCHANGED <<ConfigTable, Port_Status, Port_ConfigPtr, versioninfo, pc, call,
                   todo, trace, loop_idx, atCall, atEntry, initCompleted, ctx,
                   shiftWraps>>

Next ==
    \/ CallInit
    \/ CallSetPinDirection
    \/ CallRefreshPortDirection
    \/ CallGetVersionInfo
    \/ CallSetPinMode
    \/ Step
    \/ Return
    \/ ExternalWrite

Spec == Init /\ [][Next]_vars

\* The driver with no software but its callers touching the registers
NextCalls ==
    \/ CallInit
    \/ CallSetPinDirection
    \/ CallRefreshPortDirection
    \/ CallGetVersionInfo
    \/ CallSetPinMode
    \/ Step
    \/ Return

SpecCalls == Init /\ [][NextCalls]_vars

(***************************************************************************)
(* Concurrent callers of Port_setPinDirection.  The driver has been        *)
(* initialized from power-on registers; each context calls the service     *)
(* once.  SET_BIT(REG, BIT) is REG |= (1 << BIT) and CLEAR_BIT(REG, BIT)   *)
(* is REG &= ~(1 << BIT) on a volatile register: a load of the register,   *)
(* then a store of the changed value, and another context may run between  *)
(* the two.                                                                *)
(***************************************************************************)
\* The bits of one port's register
PortBits(REG, port_num) == {b \in REG : b[1] = port_num}

ConcInit ==
    /\ ConfigTable \in Tables
    /\ Port_Status = PORT_INITIALIZED
    /\ Port_ConfigPtr = CONFIG_ADDR
    /\ shiftWraps \in Builds(ConfigTable)
    /\ regs = ApplySeq(shiftWraps, RegFile({}, {}, {}, {}, {}, {}, {}, {}, {}),
                       SelectSeq(Port_Init(CONFIG_ADDR), IsRegWrite))
    /\ versioninfo = NoVersion
    /\ pc = "idle"
    /\ call = NoCall
    /\ todo = <<>>
    /\ trace = <<>>
    /\ loop_idx = 0
    /\ atCall = NoSnap
    /\ atEntry = NoSnap
    /\ initCompleted = TRUE
    /\ ctx = [c \in Contexts |-> IdleCtx]

ConcUnchanged ==
    UNCHANGED <<ConfigTable, Port_Status, Port_ConfigPtr, versioninfo, pc, call,
                todo, trace, loop_idx, atCall, atEntry, initCompleted, shiftWraps>>

\* The context has performed the statement at the head of its list
Performed(c) ==
    [ctx[c] EXCEPT !.todo = Tail(@), !.loaded = FALSE, !.latch = {},
                   !.pc = IF Tail(ctx[c].todo) = <<>> THEN "ret" ELSE "run",
                   !.failed = @ \/ IsDet(Head(ctx[c].todo))]

\* Context c enters Port_setPinDirection
ConcCall(c) ==
    /\ ctx[c].pc = "idle"
    /\ \E Pin \in 0..MaxPinId, Direction \in {PORT_PIN_IN, PORT_PIN_OUT} :
          ctx' = [ctx EXCEPT ![c] = [IdleCtx EXCEPT
                     !.pc = "run", !.Pin = Pin, !.Direction = Direction,
                     !.todo = Port_setPinDirection(Pin, Direction)]]
    /\ UNCHANGED regs
    /\ ConcUnchanged

\* First half of SET_BIT / CLEAR_BIT: the register is loaded
ConcLoad(c) ==
    /\ ctx[c].pc = "run"
    /\ Head(ctx[c].todo).t \in {"set", "clear"}
    /\ ~ctx[c].loaded
    /\ ctx' = [ctx EXCEPT ![c].loaded = TRUE,
                          ![c].latch = PortBits(regs[Head(ctx[c].todo).reg],
                                                Head(ctx[c].todo).port)]
    /\ UNCHANGED regs
    /\ ConcUnchanged

\* Second half: the loaded value, with the bit set or cleared, is stored
ConcStore(c) ==
    /\ ctx[c].pc = "run"
    /\ Head(ctx[c].todo).t \in {"set", "clear"}
    /\ ctx[c].loaded
    /\ LET ev == Head(ctx[c].todo)
           BIT == <<ev.port, ev.bit>>
           stored == IF ev.t = "set" THEN SET_BIT(ctx[c].latch, BIT)
                                     ELSE CLEAR_BIT(ctx[c].latch, BIT)
       IN  regs' = [regs EXCEPT ![ev.reg] = (@ \ PortBits(@, ev.port)) \cup stored]
    /\ ctx' = [ctx EXCEPT ![c] = Performed(c)]
    /\ ConcUnchanged

\* A plain store (the lock key) or a Det report
ConcStep(c) ==
    /\ ctx[c].pc = "run"
    /\ Head(ctx[c].todo).t \notin {"set", "clear"}
    /\ regs' = Apply(regs, Head(ctx[c].todo))
    /\ ctx' = [ctx EXCEPT ![c] = Performed(c)]
    /\ ConcUnchanged

ConcNext ==
    \E c \in Contexts :
        \/ ConcCall(c)
        \/ ConcLoad(c)
        \/ ConcStore(c)
        \/ ConcStep(c)

SpecConc == ConcInit /\ [][ConcNext]_vars

(***************************************************************************)
(* Observations used by the properties                                     *)
(***************************************************************************)
\* The register writes and the Det reports of the current call, in order
RegWrites == SelectSeq(trace, IsRegWrite)
DetReports == SelectSeq(trace, IsDet)

\* The table indices visited by the loop of the current call, in order
RECURSIVE IterIndices(_)
IterIndices(tr) ==
    IF tr = <<>> THEN <<>>
    ELSE IF Head(tr).t = "iter" THEN <<Head(tr).idx>> \o IterIndices(Tail(tr))
    ELSE IterIndices(Tail(tr))

Returned(sid) == pc = "ret" /\ call.sid = sid
InCall(sid) == pc \in {"run", "ret"} /\ call.sid = sid

TableIndices == 0..(PORT_CONFIGURED_CHANNELS - 1)
PinOf(e) == <<e.Port_Num, e.Ch_Num>>

\* No two entries of the table name the same (port, channel)
DistinctPins(cfg) ==
    \A i, j \in TableIndices : i # j => PinOf(cfg[i]) # PinOf(cfg[j])

\* The bits of one pin in the registers that configure it
PinRegs(r, port_num, pin_num) ==
    [DIR   |-> <<port_num, pin_num>> \in r.DIR,
     DATA  |-> <<port_num, pin_num>> \in r.DATA,
     PUR   |-> <<port_num, pin_num>> \in r.PUR,
     PDR   |-> <<port_num, pin_num>> \in r.PDR,
     AMSEL |-> <<port_num, pin_num>> \in r.AMSEL,
     AFSEL |-> <<port_num, pin_num>> \in r.AFSEL,
     DEN   |-> <<port_num, pin_num>> \in r.DEN,
     PCTL  |-> r.PCTL \cap NibbleBits(port_num, pin_num)]

\* Every entry has a known port, a channel 0..7 and mode DIO
AllValidDio(cfg) ==
    \A i \in TableIndices :
        /\ ValidPort(cfg[i].Port_Num)
        /\ cfg[i].Ch_Num \in 0..(NUM_CHANNELS - 1)
        /\ cfg[i].Mode = PIN_MODE_DIO

\* The registers hold what entry e asks for
EntryProgrammed(r, e) ==
    /\ e.Direction = PORT_PIN_OUT =>
          /\ PinOf(e) \in r.DIR
          /\ (PinOf(e) \in r.DATA) = (e.InitialValue = STD_HIGH)
    /\ e.Direction = PORT_PIN_IN =>
          /\ PinOf(e) \notin r.DIR
          /\ e.Resistor = PULL_UP => (PinOf(e) \in r.PUR /\ PinOf(e) \notin r.PDR)
          /\ e.Resistor = PULL_DOWN => (PinOf(e) \in r.PDR /\ PinOf(e) \notin r.PUR)
    /\ PinOf(e) \in r.DEN
    /\ PinOf(e) \notin r.AMSEL
    /\ PinOf(e) \notin r.AFSEL
    /\ e.Port_Num \in r.RCGC

(***************************************************************************)
(* C1                                                                      *)
(***************************************************************************)
\* C1 as stated: after Port_Init over a table whose entries all have a valid
\* port, channel and mode DIO, every entry's pin is programmed as the entry
\* asks and the driver is initialized.
C1_Original ==
    (Returned(PORT_INIT_SID) /\ call.ptr # NULL_PTR /\ AllValidDio(ConfigTable)) =>
        /\ \A i \in TableIndices : EntryProgrammed(regs, ConfigTable[i])
        /\ Port_Status = PORT_INITIALIZED

\* C1 (amended): the same for tables whose entries name pairwise distinct
\* pins; in particular the shipped table leaves PF1 an output driven high and
\* PF4 an input with pull-up, both digital, with port F clocked.
C1_InitProgramsTable ==
    (Returned(PORT_INIT_SID) /\ call.ptr # NULL_PTR /\ AllValidDio(ConfigTable)
        /\ DistinctPins(ConfigTable)) =>
        /\ \A i \in TableIndices : EntryProgrammed(regs, ConfigTable[i])
        /\ Port_Status = PORT_INITIALIZED
        /\ ConfigTable = Port_Configuration =>
              /\ <<5, 1>> \in regs.DIR /\ <<5, 1>> \in regs.DATA
              /\ <<5, 1>> \in regs.DEN /\ <<5, 1>> \notin regs.AMSEL
              /\ <<5, 1>> \notin regs.AFSEL
              /\ <<5, 4>> \notin regs.DIR /\ <<5, 4>> \in regs.PUR
              /\ <<5, 4>> \notin regs.PDR /\ <<5, 4>> \in regs.DEN
              /\ 5 \in regs.RCGC

\* Port_Init over the shipped table has returned, from registers that held
\* the opposite of what it asks for
C1_Witness ==
    /\ Returned(PORT_INIT_SID)
    /\ call.ptr # NULL_PTR
    /\ ConfigTable = Port_Configuration
    /\ <<5, 4>> \in atCall.PDR
    /\ <<5, 1>> \in atCall.AFSEL
    /\ Port_Status = PORT_INITIALIZED

(***************************************************************************)
(* C2                                                                      *)
(***************************************************************************)
\* C2: while no Port_Init with a table has completed, Port_setPinDirection,
\* Port_RefreshPortDirection and Port_SetPinMode report PORT_E_UNINIT and
\* write no register, whatever their arguments.
C2_UninitRejected ==
    (InCall(PORT_SET_PIN_DIRECTION_SID) \/ InCall(PORT_REFRESH_PIN_DIRECTION_SID)
        \/ InCall(PORT_SET_PIN_MODE_SID)) /\ ~initCompleted =>
        /\ RegWrites = <<>>
        /\ regs = atCall
        /\ pc = "ret" => trace = <<Det_ReportError(call.sid, -1, PORT_E_UNINIT)>>

\* Port_SetPinMode(1, PIN_MODE_DIO) has returned before any Port_Init
C2_Witness ==
    /\ Returned(PORT_SET_PIN_MODE_SID)
    /\ ~initCompleted
    /\ call.Pin = 1
    /\ call.arg = PIN_MODE_DIO
    /\ DetReports # <<>>

(***************************************************************************)
(* C3                                                                      *)
(***************************************************************************)
\* C3 as stated: every Port_Init(NULL_PTR) reports PORT_E_PARAM_CONFIG,
\* writes no register and returns with the driver not initialized.
C3_Original ==
    (Returned(PORT_INIT_SID) /\ call.ptr = NULL_PTR) =>
        /\ trace = <<Det_ReportError(PORT_INIT_SID, -1, PORT_E_PARAM_CONFIG)>>
        /\ regs = atCall
        /\ Port_Status = PORT_NOT_INITIALIZED

(***************************************************************************)
(* C4                                                                      *)
(***************************************************************************)
\* The direction bits after a refresh: configured for fixed entries, as
\* before the call for changeable ones (entries with a known port)
RefreshRestores(cfg) ==
    \A i \in TableIndices :
        ValidPort(cfg[i].Port_Num) =>
            IF cfg[i].Direction_Changeable = FALSE
            THEN (PinOf(cfg[i]) \in regs.DIR) = (cfg[i].Direction = PORT_PIN_OUT)
            ELSE (PinOf(cfg[i]) \in regs.DIR) = (PinOf(cfg[i]) \in atCall.DIR)

\* C4 as stated: after Port_Init and any external change of direction bits,
\* one Port_RefreshPortDirection leaves every fixed entry's direction bit as
\* configured and every changeable entry's direction bit as it was.
C4_Original ==
    (Returned(PORT_REFRESH_PIN_DIRECTION_SID) /\ Port_Status = PORT_INITIALIZED) =>
        RefreshRestores(ConfigTable)

\* C4 (amended): the same for tables whose entries name pairwise distinct pins.
C4_RefreshRestoresFixed ==
    (Returned(PORT_REFRESH_PIN_DIRECTION_SID) /\ Port_Status = PORT_INITIALIZED
        /\ DistinctPins(ConfigTable)) =>
        RefreshRestores(ConfigTable)

\* A refresh has returned that found a fixed pin's direction bit changed, and
\* a changeable pin's direction bit away from its configured direction
C4_Witness ==
    /\ Returned(PORT_REFRESH_PIN_DIRECTION_SID)
    /\ Port_Status = PORT_INITIALIZED
    /\ DistinctPins(ConfigTable)
    /\ \E i, j \in TableIndices :
        /\ ValidPort(ConfigTable[i].Port_Num)
        /\ ConfigTable[i].Direction_Changeable = FALSE
        /\ (PinOf(ConfigTable[i]) \in atCall.DIR)
              # (ConfigTable[i].Direction = PORT_PIN_OUT)
        /\ ValidPort(ConfigTable[j].Port_Num)
        /\ ConfigTable[j].Direction_Changeable = TRUE
        /\ (PinOf(ConfigTable[j]) \in atCall.DIR)
              # (ConfigTable[j].Direction = PORT_PIN_OUT)

(***************************************************************************)
(* C5                                                                      *)
(***************************************************************************)
\* C5: when the driver is initialized, Port_setPinDirection on an in-bounds
\* pin whose Direction_Changeable is FALSE reports
\* PORT_E_DIRECTION_UNCHANGEABLE and writes no register, for either direction.
C5_DirectionLocked ==
    (InCall(PORT_SET_PIN_DIRECTION_SID) /\ Port_Status = PORT_INITIALIZED
        /\ call.Pin < PORT_CONFIGURED_CHANNELS
        /\ ConfigTable[call.Pin].Direction_Changeable = FALSE) =>
        /\ RegWrites = <<>>
        /\ regs = atCall
        /\ pc = "ret" =>
              trace = <<Det_ReportError(PORT_SET_PIN_DIRECTION_SID, call.Pin,
                                        PORT_E_DIRECTION_UNCHANGEABLE)>>

\* Port_setPinDirection(1, PORT_PIN_OUT) has returned on the shipped table,
\* whose Pins[1] is a fixed input
C5_Witness ==
    /\ Returned(PORT_SET_PIN_DIRECTION_SID)
    /\ Port_Status = PORT_INITIALIZED
    /\ ConfigTable = Port_Configuration
    /\ call.Pin = 1
    /\ call.arg = PORT_PIN_OUT
    /\ DetReports # <<>>

(***************************************************************************)
(* C6                                                                      *)
(***************************************************************************)
\* C6 as stated: Port_SetPinMode with a mode other than DIO, on a pin that
\* passes the other guards (the two locked pins included), reports
\* PORT_E_PARAM_INVALID_MODE and writes no register at all.
C6_Original ==
    (InCall(PORT_SET_PIN_MODE_SID) /\ Port_Status = PORT_INITIALIZED
        /\ call.Pin < PORT_CONFIGURED_CHANNELS
        /\ ConfigTable[call.Pin].Mode_Changeable = TRUE
        /\ ValidPort(ConfigTable[call.Pin].Port_Num)
        /\ call.arg # PIN_MODE_DIO) =>
        /\ RegWrites = <<>>
        /\ pc = "ret" =>
              trace = <<Det_ReportError(PORT_SET_PIN_MODE_SID, call.Pin,
                                        PORT_E_PARAM_INVALID_MODE)>>

(***************************************************************************)
(* C7                                                                      *)
(***************************************************************************)
\* A write to the direction bit or to a function-mode register of a pin
DirOrFunctionWrite(ev) ==
    /\ ev.t \in {"set", "clear", "clrnib"}
    /\ ev.reg \in {"DIR", "AMSEL", "AFSEL", "PCTL", "DEN"}

\* C7: in every service, each write to the direction bit or a function-mode
\* register of PD7 or PF0 comes after the store of the key 0x4C4F434B to that
\* port's lock register and, after that store, the setting of the channel's
\* commit bit, both done for the same entry in the same call.
C7_UnlockBeforeWrite ==
    \A i \in 1..Len(trace) :
        (DirOrFunctionWrite(trace[i]) /\ IsLockedPin(trace[i].port, trace[i].bit)) =>
            \E j, k \in 1..Len(trace) :
                /\ j < k
                /\ k < i
                /\ trace[j] = StoreLock(call.sid, trace[i].idx, trace[i].port)
                /\ trace[j].val = 1280262987
                /\ trace[k] = SetBitEv(call.sid, trace[i].idx, "CR",
                                       trace[i].port, trace[i].bit)

\* Port_Init has programmed the direction and the digital enable of a locked pin
C7_Witness ==
    /\ Returned(PORT_INIT_SID)
    /\ \E i, j \in 1..Len(trace) :
        /\ trace[i].reg = "DIR"
        /\ trace[j].reg = "DEN"
        /\ IsLockedPin(trace[i].port, trace[i].bit)
        /\ IsLockedPin(trace[j].port, trace[j].bit)

(***************************************************************************)
(* C8                                                                      *)
(***************************************************************************)
\* C8 as stated: in a Port_Init pass an entry with an unknown port is reported
\* with PORT_E_PARAM_PIN, causes no register write of any kind (the clock gate
\* register included), and every later entry is still processed.
C8_Original ==
    (Returned(PORT_INIT_SID) /\ call.ptr # NULL_PTR) =>
        \A i \in TableIndices :
            ~ValidPort(ConfigTable[i].Port_Num) =>
                /\ \E n \in 1..Len(trace) :
                      trace[n] = Det_ReportError(PORT_INIT_SID, i, PORT_E_PARAM_PIN)
                /\ \A n \in 1..Len(trace) :
                      IsRegWrite(trace[n]) => trace[n].idx # i
                /\ \A j \in TableIndices :
                      j > i => \E n \in 1..Len(trace) :
                                  trace[n] = LoopIter(PORT_INIT_SID, j)

(***************************************************************************)
(* C9                                                                      *)
(***************************************************************************)
\* C9 as stated: in a Port_Init pass, once an entry whose mode is not DIO has
\* been reported with PORT_E_PARAM_INVALID_MODE, every register of its pin
\* holds the value it had before the entry was processed, and the pass goes on
\* to the next entry.
C9_Original ==
    /\ (InCall(PORT_INIT_SID) /\ trace # <<>> /\ trace[Len(trace)].t = "det"
           /\ trace[Len(trace)].val = PORT_E_PARAM_INVALID_MODE) =>
          PinRegs(regs, ConfigTable[loop_idx].Port_Num, ConfigTable[loop_idx].Ch_Num)
            = PinRegs(atEntry, ConfigTable[loop_idx].Port_Num,
                      ConfigTable[loop_idx].Ch_Num)
    /\ (Returned(PORT_INIT_SID) /\ call.ptr # NULL_PTR) =>
          IterIndices(trace) = [i \in 1..PORT_CONFIGURED_CHANNELS |-> i - 1]

(***************************************************************************)
(* C10                                                                     *)
(***************************************************************************)
\* C10: a Port_Init with a table never blocks and performs a bounded number of
\* steps; when it returns it has visited every table index once, in order,
\* and the driver is initialized, however many entries were skipped for an
\* unknown port or reported for an unsupported mode.
C10_InitCompletes ==
    (InCall(PORT_INIT_SID) /\ call.ptr # NULL_PTR) =>
        /\ pc = "run" => todo # <<>>
        /\ Len(trace) + Len(todo) <= 3 + 11 * PORT_CONFIGURED_CHANNELS
        /\ pc = "ret" =>
              /\ todo = <<>>
              /\ IterIndices(trace) = [i \in 1..PORT_CONFIGURED_CHANNELS |-> i - 1]
              /\ Port_Status = PORT_INITIALIZED

\* Port_Init has returned over a table of which every entry was skipped or
\* reported
C10_Witness ==
    /\ Returned(PORT_INIT_SID)
    /\ call.ptr # NULL_PTR
    /\ ~ValidPort(ConfigTable[0].Port_Num)
    /\ ValidPort(ConfigTable[1].Port_Num)
    /\ ConfigTable[1].Mode # PIN_MODE_DIO
    /\ Len(DetReports) = PORT_CONFIGURED_CHANNELS
    /\ Port_Status = PORT_INITIALIZED

(***************************************************************************)
(* C11: a Port_setPinDirection call made while the driver is initialized,  *)
(* on an index inside the table whose entry is direction changeable,       *)
(* leaves the data, pull-up, pull-down, analog, alternate-function,        *)
(* function-selector and digital-enable registers as they were when the    *)
(* call was entered; and when the entry names one of the six ports, it     *)
(* reports nothing and leaves the pin's direction bit equal to the         *)
(* requested direction.                                                    *)
(***************************************************************************)
FrameRegs == {"DATA", "PUR", "PDR", "AMSEL", "AFSEL", "PCTL", "DEN"}

\* The call's preconditions: Port_setPinDirection has returned from a call
\* with the driver initialized, Pin in the table, the entry changeable
SetPinDirection_Accepted ==
    /\ Returned(PORT_SET_PIN_DIRECTION_SID)
    /\ Port_Status = PORT_INITIALIZED
    /\ call.Pin \in TableIndices
    /\ ConfigTable[call.Pin].Direction_Changeable = TRUE

\* The pin's direction bit is the requested direction
DirectionIsRequested ==
    (PinOf(ConfigTable[call.Pin]) \in regs.DIR) = (call.arg = PORT_PIN_OUT)

\* C11 as stated: for every port number the entry may hold
C11_Original ==
    SetPinDirection_Accepted =>
        /\ DirectionIsRequested
        /\ \A reg \in FrameRegs : regs[reg] = atCall[reg]

C11_SetPinDirectionFrame ==
    SetPinDirection_Accepted =>
        /\ \A reg \in FrameRegs : regs[reg] = atCall[reg]
        /\ ValidPort(ConfigTable[call.Pin].Port_Num) =>
              /\ DetReports = <<>>
              /\ DirectionIsRequested

\* A successful call has turned a pin to output whose data, pull-up and
\* digital-enable bits were set before
C11_Witness ==
    /\ SetPinDirection_Accepted
    /\ ValidPort(ConfigTable[call.Pin].Port_Num)
    /\ DetReports = <<>>
    /\ call.arg = PORT_PIN_OUT
    /\ PinOf(ConfigTable[call.Pin]) \notin atCall.DIR
    /\ PinOf(ConfigTable[call.Pin]) \in regs.DIR
    /\ PinOf(ConfigTable[call.Pin]) \in regs.DATA
    /\ PinOf(ConfigTable[call.Pin]) \in regs.DEN
    /\ PinOf(ConfigTable[call.Pin]) \in regs.PUR

(***************************************************************************)
(* C12: Port_setPinDirection checks, in this order, that the driver is     *)
(* initialized, that Pin is below the table length, and that the entry's   *)
(* direction is changeable.  A call that fails reports exactly one error,  *)
(* the one of the first failing check (PORT_E_UNINIT, then PORT_E_PARAM_PIN *)
(* for Pin >= table length, then PORT_E_DIRECTION_UNCHANGEABLE), writes no *)
(* register, and never reads the table at an index outside it.             *)
(***************************************************************************)
\* The error the first failing check reports; 0 when the three checks pass
SetPinDirection_FirstFailure ==
    IF Port_Status = PORT_NOT_INITIALIZED THEN PORT_E_UNINIT
    ELSE IF call.Pin \notin TableIndices THEN PORT_E_PARAM_PIN
    ELSE IF ~ConfigTable[call.Pin].Direction_Changeable
    THEN PORT_E_DIRECTION_UNCHANGEABLE
    ELSE 0

C12_CheckOrder ==
    InCall(PORT_SET_PIN_DIRECTION_SID) =>
        /\ SetPinDirection_Reads(call.Pin) \subseteq TableIndices
        /\ \A i \in 1..Len(trace) : trace[i].idx \in TableIndices \cup {-1}
        /\ (Returned(PORT_SET_PIN_DIRECTION_SID) /\ SetPinDirection_FirstFailure # 0) =>
              /\ Len(DetReports) = 1
              /\ DetReports[1].val = SetPinDirection_FirstFailure
        /\ (Returned(PORT_SET_PIN_DIRECTION_SID) /\ DetReports # <<>>) =>
              /\ Len(DetReports) = 1
              /\ RegWrites = <<>>
              /\ regs = atCall

\* Before Port_Init, a call with a Pin beyond the table has returned: two
\* checks would fail and the first one's error was reported
C12_Witness ==
    /\ Returned(PORT_SET_PIN_DIRECTION_SID)
    /\ Port_Status = PORT_NOT_INITIALIZED
    /\ call.Pin >= PORT_CONFIGURED_CHANNELS
    /\ DetReports = <<Det_ReportError(PORT_SET_PIN_DIRECTION_SID, -1, PORT_E_UNINIT)>>

(***************************************************************************)
(* C13: with the driver initialized, Port_SetPinMode with Pin at or beyond *)
(* the table length reports PORT_E_PARAM_PIN, and with an entry whose      *)
(* Mode_Changeable is FALSE reports PORT_E_MODE_UNCHANGEABLE; in both      *)
(* cases no register is written, whatever Mode is passed.                  *)
(***************************************************************************)
C13_SetPinModeRejects ==
    (Returned(PORT_SET_PIN_MODE_SID) /\ Port_Status = PORT_INITIALIZED) =>
        /\ call.Pin \notin TableIndices =>
              /\ trace = <<Det_ReportError(PORT_SET_PIN_MODE_SID, -1, PORT_E_PARAM_PIN)>>
              /\ regs = atCall
        /\ (call.Pin \in TableIndices /\ ~ConfigTable[call.Pin].Mode_Changeable) =>
              /\ trace = <<Det_ReportError(PORT_SET_PIN_MODE_SID, call.Pin,
                                           PORT_E_MODE_UNCHANGEABLE)>>
              /\ regs = atCall

\* Mode DIO was requested for a mode-locked pin of a known port whose
\* digital-enable bit is clear, and the call has returned
C13_Witness ==
    /\ Returned(PORT_SET_PIN_MODE_SID)
    /\ Port_Status = PORT_INITIALIZED
    /\ call.Pin \in TableIndices
    /\ ~ConfigTable[call.Pin].Mode_Changeable
    /\ ValidPort(ConfigTable[call.Pin].Port_Num)
    /\ call.arg = PIN_MODE_DIO
    /\ PinOf(ConfigTable[call.Pin]) \notin regs.DEN
    /\ DetReports # <<>>

(***************************************************************************)
(* C14: a Port_SetPinMode(Pin, PIN_MODE_DIO) call that passes its checks   *)
(* performs on the pin's function registers exactly the writes Port_Init   *)
(* performs for an entry of mode DIO (clear analog select, clear alternate *)
(* function, clear the 4-bit selector field, set digital enable, in this   *)
(* order), so the four registers end as Port_Init's writes would have left *)
(* them from the same starting registers.                                  *)
(***************************************************************************)
FunctionRegs == {"AMSEL", "AFSEL", "PCTL", "DEN"}
IsFunctionWrite(ev) == IsRegWrite(ev) /\ ev.reg \in FunctionRegs

\* What a write does, whoever performs it
Op(ev) == <<ev.t, ev.reg, ev.port, ev.bit>>
OpsOf(evs) == [i \in 1..Len(evs) |-> Op(evs[i])]

C14_SetPinModeAsInit ==
    (Returned(PORT_SET_PIN_MODE_SID) /\ DetReports = <<>>
        /\ call.arg = PIN_MODE_DIO) =>
        LET port_num == ConfigTable[call.Pin].Port_Num
            pin_num  == ConfigTable[call.Pin].Ch_Num
            initWrites == Init_Mode(call.Pin, port_num, pin_num, PIN_MODE_DIO)
        IN  /\ OpsOf(SelectSeq(trace, IsFunctionWrite)) = OpsOf(initWrites)
            /\ OpsOf(initWrites) = << <<"clear", "AMSEL", port_num, pin_num>>,
                                      <<"clear", "AFSEL", port_num, pin_num>>,
                                      <<"clrnib", "PCTL", port_num, pin_num>>,
                                      <<"set", "DEN", port_num, pin_num>> >>
            /\ \E r \in ApplyAll({atCall}, initWrites) :
                  \A reg \in FunctionRegs : regs[reg] = r[reg]

\* The call found the pin's selector field and analog select set and its
\* digital enable clear, and has returned with the pin in digital mode
C14_Witness ==
    /\ Returned(PORT_SET_PIN_MODE_SID)
    /\ DetReports = <<>>
    /\ call.arg = PIN_MODE_DIO
    /\ PinRegs(atCall, ConfigTable[call.Pin].Port_Num,
               ConfigTable[call.Pin].Ch_Num).PCTL # {}
    /\ PinOf(ConfigTable[call.Pin]) \in atCall.AMSEL
    /\ PinOf(ConfigTable[call.Pin]) \notin atCall.DEN
    /\ PinRegs(regs, ConfigTable[call.Pin].Port_Num,
               ConfigTable[call.Pin].Ch_Num).PCTL = {}
    /\ PinOf(ConfigTable[call.Pin]) \notin regs.AMSEL
    /\ PinOf(ConfigTable[call.Pin]) \in regs.DEN

(***************************************************************************)
(* C16: Port_GetVersionInfo called with a slot fills it with vendor 1000,  *)
(* module 124 and version 1.0.0 whatever Port_Status is, Port_Init called  *)
(* or not; called without a slot it reports PORT_E_PARAM_POINTER and       *)
(* stores nothing.  Either way the call changes neither Port_Status, nor   *)
(* Port_ConfigPtr, nor any register.                                       *)
(***************************************************************************)
C16_Result ==
    Returned(PORT_GET_VERSION_INFO_SID) =>
        /\ call.slot =>
              /\ versioninfo = [vendorID |-> 1000, moduleID |-> 124,
                                sw_major_version |-> 1, sw_minor_version |-> 0,
                                sw_patch_version |-> 0]
              /\ DetReports = <<>>
        /\ ~call.slot =>
              /\ trace = <<Det_ReportError(PORT_GET_VERSION_INFO_SID, -1,
                                           PORT_E_PARAM_POINTER)>>
              /\ versioninfo = NoVersion

C16_Frame ==
    (InCall(PORT_GET_VERSION_INFO_SID) \/ InCall(PORT_GET_VERSION_INFO_SID)') =>
        UNCHANGED <<Port_Status, Port_ConfigPtr, regs>>

C16_VersionInfo == [](C16_Result) /\ [][C16_Frame]_vars

\* The version was read before any Port_Init
C16_Witness ==
    /\ Returned(PORT_GET_VERSION_INFO_SID)
    /\ call.slot
    /\ Port_Status = PORT_NOT_INITIALIZED
    /\ Port_ConfigPtr = NULL_PTR
    /\ versioninfo.moduleID = PORT_MODULE_ID

(***************************************************************************)
(* C17: during a Port_Init call with a table, Port_Status is               *)
(* PORT_NOT_INITIALIZED in every intermediate state, from the store of the *)
(* new table pointer on, until the loop over the table has ended.          *)
(* Refuted: the pointer is stored before Port_Status is reset, so a second *)
(* Port_Init passes through a state with the new pointer and               *)
(* PORT_INITIALIZED.                                                       *)
(***************************************************************************)
C17_Original ==
    (InCall(PORT_INIT_SID) /\ call.ptr # NULL_PTR
        /\ trace # <<>> /\ todo # <<>>) =>
        Port_Status = PORT_NOT_INITIALIZED

(***************************************************************************)
(* C19: one pass of Port_Init over a table writes the clock gate register  *)
(* exactly once for every port some entry names, however many entries     *)
(* name it, and not for a port no entry names; a later Port_Init starts    *)
(* with an empty mask and does the same again.  Ports here are the port    *)
(* numbers 0..7, which the eight bits of portsEnabledMask can record.      *)
(***************************************************************************)
ClockWrites(port_num) ==
    Len(SelectSeq(trace, LAMBDA ev : ev.t = "rcgc" /\ ev.bit = port_num))

C19_ClockOncePerPort ==
    (InCall(PORT_INIT_SID) /\ call.ptr # NULL_PTR) =>
        \A port_num \in 0..7 :
            /\ ClockWrites(port_num) <= 1
            /\ Returned(PORT_INIT_SID) =>
                  (ClockWrites(port_num) = 1) =
                      (\E i \in TableIndices : ConfigTable[i].Port_Num = port_num)

\* A second Port_Init over a table whose two entries name the same port has
\* returned with one clock gate write, the bit having been set already
C19_Witness ==
    /\ Returned(PORT_INIT_SID)
    /\ call.ptr # NULL_PTR
    /\ initCompleted
    /\ ConfigTable[0].Port_Num = ConfigTable[1].Port_Num
    /\ ConfigTable[0].Port_Num \in atCall.RCGC
    /\ ClockWrites(ConfigTable[0].Port_Num) = 1

(***************************************************************************)
(* C20: after Port_Init has processed an entry of direction IN, the pin's  *)
(* pull-up and pull-down bits match the entry's resistor whatever they     *)
(* held before: PULL_UP leaves pull-up set and pull-down cleared,          *)
(* PULL_DOWN the reverse, and OFF leaves both cleared.                     *)
(* Refuted for OFF: Port_Init writes neither register for such an entry.   *)
(* Stated for tables of pairwise distinct pins, so that no later entry     *)
(* rewrites the bits.                                                      *)
(***************************************************************************)
PullMatches(r, e) ==
    /\ e.Resistor = PULL_UP => (PinOf(e) \in r.PUR /\ PinOf(e) \notin r.PDR)
    /\ e.Resistor = PULL_DOWN => (PinOf(e) \in r.PDR /\ PinOf(e) \notin r.PUR)
    /\ e.Resistor = RESISTOR_OFF => (PinOf(e) \notin r.PUR /\ PinOf(e) \notin r.PDR)

C20_Original ==
    (Returned(PORT_INIT_SID) /\ call.ptr # NULL_PTR /\ DistinctPins(ConfigTable)) =>
        \A i \in TableIndices :
            (ConfigTable[i].Direction = PORT_PIN_IN /\ ValidPort(ConfigTable[i].Port_Num))
                => PullMatches(regs, ConfigTable[i])

(***************************************************************************)
(* C18: every service checks the channel number of an entry as it checks   *)
(* the port number: for an entry whose channel number is outside 0..7,     *)
(* Port_Init, Port_setPinDirection, Port_RefreshPortDirection and          *)
(* Port_SetPinMode write no register.                                      *)
(* Refuted: no service reads Ch_Num for anything but the bit to write.     *)
(* The clock gate write, which does not depend on the channel, is left     *)
(* aside here.                                                             *)
(***************************************************************************)
C18_Original ==
    \A i \in 1..Len(trace) :
        (IsRegWrite(trace[i]) /\ trace[i].t # "rcgc"
            /\ trace[i].idx \in TableIndices) =>
            ConfigTable[trace[i].idx].Ch_Num \in 0..(NUM_CHANNELS - 1)

(***************************************************************************)
(* C15: two Port_setPinDirection calls in different execution contexts on  *)
(* different pins, two channels of one port included, are safe under every *)
(* interleaving of their register loads and stores: when both have         *)
(* returned, each pin's direction bit equals the direction its call        *)
(* requested.                                                              *)
(* Refuted for two channels of one port: they share the port's direction   *)
(* register, and a store of a value loaded before the other context's      *)
(* store undoes that store.                                                *)
(***************************************************************************)
CtxPin(c) == PinOf(ConfigTable[ctx[c].Pin])
CtxDone(c) == ctx[c].pc = "ret" /\ ~ctx[c].failed

C15_Original ==
    (CtxDone("task") /\ CtxDone("isr") /\ CtxPin("task") # CtxPin("isr")) =>
        \A c \in Contexts :
            (CtxPin(c) \in regs.DIR) = (ctx[c].Direction = PORT_PIN_OUT)

\* The same, for pins on different ports
C15_DifferentPorts ==
    (CtxDone("task") /\ CtxDone("isr") /\ CtxPin("task")[1] # CtxPin("isr")[1]) =>
        \A c \in Contexts :
            (CtxPin(c) \in regs.DIR) = (ctx[c].Direction = PORT_PIN_OUT)

(***************************************************************************)
(* C21: when Port_Init programs the pull resistor of an IN pin, it clears  *)
(* the opposite resistor bit before it sets the requested one, so that in  *)
(* no intermediate state of the pass the pin has both its pull-up and its  *)
(* pull-down bit set, also when the opposite resistor was enabled before.  *)
(* Refuted: the requested bit is set first and the opposite bit cleared    *)
(* second.                                                                 *)
(***************************************************************************)
C21_Original ==
    (InCall(PORT_INIT_SID) /\ trace # <<>>
        /\ trace[Len(trace)].t = "set"
        /\ trace[Len(trace)].reg \in {"PUR", "PDR"}) =>
        LET BIT == <<trace[Len(trace)].port, trace[Len(trace)].bit>>
        IN  ~(BIT \in regs.PUR /\ BIT \in regs.PDR)

(***************************************************************************)
(* C22: for every entry with Direction_Changeable = FALSE, once Port_Init  *)
(* has completed, the pin's direction bit equals the configured direction  *)
(* after any sequence of Port_setPinDirection, Port_SetPinMode,            *)
(* Port_RefreshPortDirection and Port_GetVersionInfo calls with any        *)
(* arguments.  Checked where only the driver writes the registers.         *)
(***************************************************************************)
\* Some Port_Init with a table has run to its end and none is under way
InitDone ==
    /\ initCompleted \/ (Returned(PORT_INIT_SID) /\ call.ptr # NULL_PTR)
    /\ ~(pc = "run" /\ call.sid = PORT_INIT_SID /\ call.ptr # NULL_PTR)

FixedDirectionsKept(cfg) ==
    \A i \in TableIndices :
        (cfg[i].Direction_Changeable = FALSE /\ ValidPort(cfg[i].Port_Num)) =>
            (PinOf(cfg[i]) \in regs.DIR) = (cfg[i].Direction = PORT_PIN_OUT)

\* C22 as stated
C22_Original == InitDone => FixedDirectionsKept(ConfigTable)

\* C22 (amended): the same for tables whose entries name pairwise distinct pins
C22_FixedDirectionKept ==
    (InitDone /\ DistinctPins(ConfigTable)) => FixedDirectionsKept(ConfigTable)

\* After Port_Init, the opposite direction was requested for a fixed pin and
\* the call has returned
C22_Witness ==
    /\ initCompleted
    /\ DistinctPins(ConfigTable)
    /\ Returned(PORT_SET_PIN_DIRECTION_SID)
    /\ call.Pin \in TableIndices
    /\ ConfigTable[call.Pin].Direction_Changeable = FALSE
    /\ ValidPort(ConfigTable[call.Pin].Port_Num)
    /\ call.arg # ConfigTable[call.Pin].Direction

(***************************************************************************)
(* C23: in a Port_RefreshPortDirection pass, a fixed-direction entry with  *)
(* a port number outside 0..5 gets PORT_E_PARAM_PIN reported and no        *)
(* register write, and the pass goes on: every later fixed-direction entry *)
(* with a known port has its configured direction written again.           *)
(***************************************************************************)
\* The events the current call performed for table index idx
EventsOf(idx) == SelectSeq(trace, LAMBDA ev : ev.idx = idx)

C23_RefreshSkipsBadPort ==
    (Returned(PORT_REFRESH_PIN_DIRECTION_SID) /\ Port_Status = PORT_INITIALIZED) =>
        \A i \in TableIndices :
            (ConfigTable[i].Direction_Changeable = FALSE
                /\ ~ValidPort(ConfigTable[i].Port_Num)) =>
                /\ EventsOf(i) =
                      <<LoopIter(PORT_REFRESH_PIN_DIRECTION_SID, i),
                        Det_ReportError(PORT_REFRESH_PIN_DIRECTION_SID, i,
                                        PORT_E_PARAM_PIN)>>
                /\ \A j \in TableIndices :
                      (j > i /\ ConfigTable[j].Direction_Changeable = FALSE
                          /\ ValidPort(ConfigTable[j].Port_Num)) =>
                          /\ \E k \in 1..Len(trace) :
                                /\ trace[k].idx = j
                                /\ trace[k].reg = "DIR"
                                /\ trace[k].t = (IF ConfigTable[j].Direction = PORT_PIN_OUT
                                                 THEN "set" ELSE "clear")
                                /\ <<trace[k].port, trace[k].bit>> = PinOf(ConfigTable[j])
                          /\ (PinOf(ConfigTable[j]) \in regs.DIR)
                                = (ConfigTable[j].Direction = PORT_PIN_OUT)

\* A pass has returned that skipped entry 0 (unknown port) and restored the
\* changed direction bit of the fixed entry 1
C23_Witness ==
    /\ Returned(PORT_REFRESH_PIN_DIRECTION_SID)
    /\ Port_Status = PORT_INITIALIZED
    /\ ConfigTable[0].Direction_Changeable = FALSE
    /\ ~ValidPort(ConfigTable[0].Port_Num)
    /\ ConfigTable[1].Direction_Changeable = FALSE
    /\ ValidPort(ConfigTable[1].Port_Num)
    /\ (PinOf(ConfigTable[1]) \in atCall.DIR) # (PinOf(ConfigTable[1]) \in regs.DIR)

(***************************************************************************)
(* C24: in every reachable state, the intermediate states of Port_Init     *)
(* included, Port_Status = PORT_INITIALIZED implies that Port_ConfigPtr is *)
(* not NULL_PTR; so Port_setPinDirection, Port_RefreshPortDirection and    *)
(* Port_SetPinMode, once past their check of Port_Status, never read the   *)
(* table through a null pointer.                                           *)
(***************************************************************************)
\* The running service reads the table and has passed its Port_Status check
PastInitCheck ==
    /\ \/ InCall(PORT_SET_PIN_DIRECTION_SID)
       \/ InCall(PORT_REFRESH_PIN_DIRECTION_SID)
       \/ InCall(PORT_SET_PIN_MODE_SID)
    /\ (trace \o todo)[1] # Det_ReportError(call.sid, -1, PORT_E_UNINIT)

C24_InitializedHasTable ==
    /\ Port_Status = PORT_INITIALIZED => Port_ConfigPtr # NULL_PTR
    /\ PastInitCheck => Port_ConfigPtr # NULL_PTR

\* A service that reads the table is past its check of Port_Status
C24_Witness ==
    /\ PastInitCheck
    /\ pc = "run"
    /\ Port_Status = PORT_INITIALIZED
    /\ Port_ConfigPtr = CONFIG_ADDR

(***************************************************************************)
(* C25: Port_Init(NULL_PTR) leaves Port_Status and Port_ConfigPtr exactly  *)
(* as they were: after a completed Port_Init with a table, it leaves the   *)
(* driver PORT_INITIALIZED with that table, on which the later             *)
(* Port_setPinDirection, Port_SetPinMode and Port_RefreshPortDirection     *)
(* calls operate.                                                          *)
(***************************************************************************)
InInitNull == InCall(PORT_INIT_SID) /\ call.ptr = NULL_PTR

C25_Result ==
    (Returned(PORT_INIT_SID) /\ call.ptr = NULL_PTR) =>
        /\ trace = <<Det_ReportError(PORT_INIT_SID, -1, PORT_E_PARAM_CONFIG)>>
        /\ initCompleted =>
              (Port_Status = PORT_INITIALIZED /\ Port_ConfigPtr = CONFIG_ADDR)

C25_Frame ==
    (InInitNull \/ InInitNull') => UNCHANGED <<Port_Status, Port_ConfigPtr>>

C25_InitNullKeepsState == [](C25_Result) /\ [][C25_Frame]_vars

\* Port_Init(NULL_PTR) has returned after a completed Port_Init with a table
C25_Witness ==
    /\ Returned(PORT_INIT_SID)
    /\ call.ptr = NULL_PTR
    /\ initCompleted
    /\ Port_Status = PORT_INITIALIZED
    /\ Port_ConfigPtr = CONFIG_ADDR

(***************************************************************************)
(* C26: no service changes a register bit that belongs to a (port,         *)
(* channel) other than that of the table entry it is processing: the       *)
(* direction, data, pull, analog-select, alternate-function and            *)
(* digital-enable bits and the function-selector fields of all other       *)
(* channels, and all registers of other ports, stay as they were (the lock *)
(* register and the clock gate bit of the entry's own port excepted).      *)
(* Refuted for an entry with a channel number of 8 or more (see C18) on a  *)
(* build where the oversized shift count wraps: the selector field of      *)
(* another channel is cleared.                                             *)
(***************************************************************************)
\* Registers r1 differ from r0 at most in what belongs to pin <<port, ch>>
OnlyPinChanged(r0, r1, port_num, pin_num) ==
    /\ \A reg \in GpioBitRegs \ {"PCTL"} :
          r1[reg] \ {<<port_num, pin_num>>} = r0[reg] \ {<<port_num, pin_num>>}
    /\ r1.PCTL \ NibbleBits(port_num, pin_num) = r0.PCTL \ NibbleBits(port_num, pin_num)
    /\ \A p \in DOMAIN r0.LOCK : p # port_num => r1.LOCK[p] = r0.LOCK[p]
    /\ r1.RCGC \ {port_num} = r0.RCGC \ {port_num}

\* The table index the running service is processing; -1 when it has none
CurrentIndex ==
    IF call.sid \in {PORT_INIT_SID, PORT_REFRESH_PIN_DIRECTION_SID} THEN loop_idx
    ELSE IF call.sid \in {PORT_SET_PIN_DIRECTION_SID, PORT_SET_PIN_MODE_SID}
            /\ call.Pin \in TableIndices
    THEN call.Pin
    ELSE -1

\* Since the service began with its current entry, only that entry's pin changed
FrameKept ==
    IF CurrentIndex = -1
    THEN regs = atEntry
    ELSE OnlyPinChanged(atEntry, regs, ConfigTable[CurrentIndex].Port_Num,
                        ConfigTable[CurrentIndex].Ch_Num)

C26_Original == (pc \in {"run", "ret"}) => FrameKept

\* The same, for tables whose channel numbers are all 0..7
C26_ValidChannels ==
    (pc \in {"run", "ret"}
        /\ \A i \in TableIndices : ConfigTable[i].Ch_Num \in 0..(NUM_CHANNELS - 1))
        => FrameKept

(***************************************************************************)
(* C27: Port_Init is idempotent on the registers: for every table and all  *)
(* starting registers, Port_Init over the table run twice in a row leaves  *)
(* every register and Port_Status as one run does; likewise                *)
(* Port_RefreshPortDirection run twice equals one run.                     *)
(***************************************************************************)
\* The registers after the register writes of a service, started from r
AfterInit(r) ==
    ApplySeq(shiftWraps, r, SelectSeq(Port_Init(CONFIG_ADDR), IsRegWrite))
AfterRefresh(r) ==
    ApplySeq(shiftWraps, r, SelectSeq(Port_RefreshPortDirection, IsRegWrite))

\* The last value a sequence of statements stores to Port_Status
RECURSIVE LastStatus(_, _)
LastStatus(status, evs) ==
    IF evs = <<>> THEN status
    ELSE LastStatus(IF Head(evs).t = "status" THEN Head(evs).val ELSE status,
                    Tail(evs))

C27_Idempotent ==
    /\ (Returned(PORT_INIT_SID) /\ call.ptr # NULL_PTR) =>
          /\ regs = AfterInit(atCall)
          /\ AfterInit(regs) = regs
          /\ LastStatus(Port_Status, Port_Init(CONFIG_ADDR)) = Port_Status
    /\ Returned(PORT_REFRESH_PIN_DIRECTION_SID) =>
          /\ regs = AfterRefresh(atCall)
          /\ AfterRefresh(regs) = regs
          /\ LastStatus(Port_Status, Port_RefreshPortDirection) = Port_Status

\* A Port_Init that followed a completed one has returned: it wrote
\* registers that its first run had changed, and left them all as it found them
C27_Witness ==
    /\ Returned(PORT_INIT_SID)
    /\ call.ptr # NULL_PTR
    /\ initCompleted
    /\ RegWrites # <<>>
    /\ regs = atCall
    /\ regs \notin InitialRegs

====
